---- MODULE Spec2Model ----
(***************************************************************************)
(* Lunar-lander descent simulator, Monte Carlo harness and summariser.     *)
(*                                                                         *)
(* The repository holds four variants of the same simulate/aggregate code: *)
(*   "app"      src/app.py                 (feed-forward controller, trace)*)
(*   "web"      src/web/app.py             (trace, dt from the config)     *)
(*   "console"  src/src/07_mission_console.py                              *)
(*   "mc"       src/src/02_monte_carlo.py  (extra altimeter draw)          *)
(* The variable impl selects the variant a behaviour runs.                 *)
(*                                                                         *)
(* Floats are modelled on an integer grid: time in units of 0.05 s (so the *)
(* SIM_DT of 0.1 s is 2), altitude, velocity, acceleration, force and fuel *)
(* in grid units chosen so that velocity*dt, accel*dt and throttle*dt are  *)
(* exact; throttle in halves (max_throttle 1.0 is 2).  The two divisions  *)
(* of the loop (thrust/mass, mass*gravity/max_thrust) are quantised to the *)
(* grid by QDiv.                                                           *)
(*                                                                         *)
(* Five specifications share the variables:                                *)
(*   Spec          the batch harness on valid configurations               *)
(*   InvalidSpec   the same harness on configurations outside the domain   *)
(*   ThrottleSpec  the same harness with throttle bounds inside [0, 1]     *)
(*   RankSpec      the estimator and the suggestion engine                 *)
(*                 (compute_physics, make_suggestions, rank_suggestions    *)
(*                 and their callers), with floats in thousandths          *)
(*   EstimatorSpec compute_physics and make_suggestions called on their    *)
(*                 own, over a sweep of safe rates and edge configurations *)
(***************************************************************************)
EXTENDS Integers, Sequences, FiniteSets, TLC

VARIABLES
    impl,      \* which variant of the code runs
    cfg,       \* the configuration passed to run_monte_carlo
    n_runs,    \* the n_runs argument
    stream,    \* values the generator of this seed has returned, by position
    rng,       \* position of the live generator in the stream
    phase,     \* "idle" | "running" | "collected" | "summarized" | "failed"
    calls,     \* number of run_monte_carlo calls made so far
    pc,        \* position inside simulate_one: "none" | "alt" | "vel" | "thrust" | "wind" | "exit"
    sim,       \* locals of simulate_one: altitude, velocity, fuel, time, throttle, thrust
    trace,     \* the trace list of the current run
    rows,      \* outcome records collected by the current call
    traces,    \* the trace returned with each record, before simulate_one pops it
    draws,     \* for the current call: <<position, run, use>> of every draw consumed
    history,   \* what each completed call returned: [rows, traces]
    summary,   \* result of summarize / of the statistics block of main
    rk         \* the suggestion engine: inputs, locals and result of rank_suggestions

vars == <<impl, cfg, n_runs, stream, rng, phase, calls, pc, sim, trace, rows,
          traces, draws, history, summary, rk>>

-----------------------------------------------------------------------------
(* Bounds of the model *)

MaxTime == 4      \* largest max_time, in grid time units
MaxRuns == 2      \* largest n_runs
MaxCalls == 2     \* run_monte_carlo calls per behaviour (same cfg, n_runs, seed)

(* Program constants *)

SIM_DT == 2               \* app.py: SIM_DT = 0.1 s, on the 0.05 s grid
APP_CAP_SLACK == 10       \* app.py: len(trace) > int(max_time / dt) + 10
WEB_TRACE_CAP == 200000   \* web/app.py: len(trace) > 200000

Impls == {"app", "web", "console", "mc"}

\* Standard-normal draws, quantised to one sigma either side.
NoiseZ == {-1, 1}

\* (vel_noise, thrust_noise, wind_std) profiles the configurations use.
NoiseProfiles ==
    { <<0, 0, 0>>, <<1, 0, 0>>, <<0, 2, 0>>, <<0, 0, 1>> }

\* dt of a variant: the module constant in app.py, a config field elsewhere.
DtValues(i) ==
    CASE i = "app" -> {SIM_DT}
      [] i = "web" -> {2, 3}
      [] OTHER -> {3}

Configs(i) ==
    { [ dt               |-> d,
        max_time         |-> mt,
        mass             |-> m,
        altitude         |-> a,
        initial_velocity |-> v,
        fuel             |-> f,
        thrust           |-> 2,
        gravity          |-> 1,
        vel_noise        |-> np[1],
        thrust_noise     |-> np[2],
        wind_std         |-> np[3],
        alt_noise        |-> 0,
        target_descent   |-> 1,
        kp               |-> k,
        min_throttle     |-> 0,
        max_throttle     |-> 2,
        safe_speed       |-> 2 ] :
      d \in DtValues(i), mt \in 1..MaxTime, m \in {2}, a \in {2, 6},
      v \in {-2, 0}, f \in {1, 4}, k \in {0, 1}, np \in NoiseProfiles }

-----------------------------------------------------------------------------
(* Arithmetic helpers *)

Abs(x) == IF x < 0 THEN -x ELSE x
Max(a, b) == IF a >= b THEN a ELSE b
Min(a, b) == IF a <= b THEN a ELSE b

\* Quotient on the grid (floor), for the loop's two float divisions.
QDiv(a, b) == a \div b

\* max(min(x, hi), lo)
Clip(x, lo, hi) == Max(Min(x, hi), lo)

\* np.clip(x, lo, hi): minimum(maximum(x, lo), hi)
NpClip(x, lo, hi) == Min(Max(x, lo), hi)

\* Optional numbers: a float, None or NaN.
Num(x) == [tag |-> "num", val |-> x]
None == [tag |-> "None", val |-> 0]
NaN == [tag |-> "nan", val |-> 0]

HasTrace(i) == i \in {"app", "web"}

-----------------------------------------------------------------------------
(* simulate_one_with_trace / simulate_one *)

\* The summary before summarize has run.
NoSummary ==
    [ error |-> "pending", runs |-> 0, safe_rate |-> 0, touchdown_rate |-> 0,
      avg_speed |-> None, std_speed |-> None, avg_fuel_left |-> 0,
      breakdown |-> << >>, breakdown_pct |-> << >>, dominant_reason |-> "none" ]

\* throttle_ff = mass * gravity / max_thrust raises when max_thrust is 0.
DividesByZero(i, c) == i = "app" /\ c.thrust = 0

\* throttle_ff: app.py adds a hover feed-forward, the other variants have none.
ThrottleFF(i, c) ==
    IF i = "app" THEN QDiv(c.mass * c.gravity, c.thrust) ELSE 0

\* The raw command, with no clamp.
ThrottleUnclamped(i, c, measured_vel) ==
    ThrottleFF(i, c) + c.kp * ((-c.target_descent) - measured_vel)

\* throttle = clip(throttle_ff + kp * vel_error, min_thr, max_thr)
Throttle(i, c, measured_vel) ==
    LET target_vel == -c.target_descent
        vel_error == target_vel - measured_vel
        wanted == ThrottleFF(i, c) + c.kp * vel_error
    IN  IF i = "app" THEN NpClip(wanted, c.min_throttle, c.max_throttle)
                     ELSE Clip(wanted, c.min_throttle, c.max_throttle)

\* thrust = max(throttle * max_thrust * thrust_mult, 0.0)
Thrust(c, throttle, noise) ==
    LET thrust_mult == 1 + noise
    IN  Max(throttle * c.thrust * thrust_mult, 0)

\* while altitude > 0.0 and fuel > 0.0 and time < max_time
LoopCondNoTime(c, s) == s.altitude > 0 /\ s.fuel > 0
LoopCond(c, s) == s.altitude > 0 /\ s.fuel > 0 /\ s.time < c.max_time

\* the guardrail after trace.append: true when the loop breaks
CapHit(i, c, tr) ==
    CASE i = "app" -> Len(tr) > (c.max_time \div c.dt) + APP_CAP_SLACK
      [] i = "web" -> Len(tr) > WEB_TRACE_CAP
      [] OTHER -> FALSE

TraceRowRawFuel(i, t, alt, fuel, vel, thr) ==
    IF i = "app" THEN <<t, alt, fuel, vel, thr>>
                 ELSE <<t, alt, vel, fuel, thr>>

\* One trace row.  app.py: (time, altitude, fuel, velocity, throttle);
\* web/app.py: (time, altitude, velocity, fuel, throttle).
TraceRow(i, t, alt, fuel, vel, thr) ==
    IF i = "app" THEN <<t, alt, Max(fuel, 0), vel, thr>>
                 ELSE <<t, alt, vel, Max(fuel, 0), thr>>

TraceFuel(i, row) == IF i = "app" THEN row[3] ELSE row[4]

\* the first draw of a loop iteration
FirstDraw(i) == IF i = "mc" THEN "alt" ELSE "vel"

\* rng.normal(0, scale) returning v: the next value of the seed's stream, which
\* is scale * z for a standard draw z; a position already produced by an earlier
\* generator of the same seed returns the same value again.
Normal(scale, v, use) ==
    /\ v \in {scale * z : z \in NoiseZ}
    /\ IF rng < Len(stream)
         THEN v = stream[rng + 1] /\ stream' = stream
         ELSE stream' = Append(stream, v)
    /\ rng' = rng + 1
    /\ draws' = Append(draws, <<rng + 1, Len(rows) + 1, use>>)

\* Entry of simulate_one: locals from the config, the initial trace row, and the
\* first evaluation of the while condition.
StartRunReseed ==
    /\ phase = "running" /\ pc = "none" /\ Len(rows) < n_runs
    /\ LET s == [altitude |-> cfg.altitude, velocity |-> cfg.initial_velocity,
                 fuel |-> cfg.fuel, time |-> 0, throttle |-> 0, thrust |-> 0]
       IN  /\ sim' = s
           /\ trace' = IF HasTrace(impl)
                         THEN << TraceRow(impl, 0, s.altitude, s.fuel, s.velocity, 0) >>
                         ELSE << >>
           /\ pc' = IF LoopCond(cfg, s) THEN FirstDraw(impl) ELSE "exit"
    /\ rng' = 0
    /\ UNCHANGED <<rk, impl, cfg, n_runs, stream, phase, calls, rows, traces, draws,
                   history, summary>>

StartRun ==
    /\ phase = "running" /\ pc = "none" /\ Len(rows) < n_runs
    /\ IF DividesByZero(impl, cfg)
         THEN /\ phase' = "failed"
              /\ summary' = [NoSummary EXCEPT !.error = "ZeroDivisionError"]
              /\ UNCHANGED <<sim, trace, pc>>
         ELSE LET s == [altitude |-> cfg.altitude, velocity |-> cfg.initial_velocity,
                        fuel |-> cfg.fuel, time |-> 0, throttle |-> 0, thrust |-> 0]
              IN  /\ sim' = s
                  /\ trace' = IF HasTrace(impl)
                                THEN << TraceRow(impl, 0, s.altitude, s.fuel,
                                                 s.velocity, 0) >>
                                ELSE << >>
                  /\ pc' = IF LoopCond(cfg, s) THEN FirstDraw(impl) ELSE "exit"
                  /\ UNCHANGED <<phase, summary>>
    /\ UNCHANGED <<rk, impl, cfg, n_runs, stream, rng, calls, rows, traces,
                   draws, history>>

\* 02_monte_carlo.py only: measured_alt = altitude + rng.normal(0, alt_noise),
\* a draw whose value the controller never reads.
DrawAltNoise ==
    /\ phase = "running" /\ pc = "alt"
    /\ \E v \in {cfg.alt_noise * z : z \in NoiseZ} : Normal(cfg.alt_noise, v, "alt")
    /\ pc' = "vel"
    /\ UNCHANGED <<rk, impl, cfg, n_runs, phase, calls, sim, trace, rows, traces,
                   history, summary>>

\* measured_vel, vel_error, throttle
DrawVelNoise ==
    /\ phase = "running" /\ pc = "vel"
    /\ \E v \in {cfg.vel_noise * z : z \in NoiseZ} :
         /\ Normal(cfg.vel_noise, v, "vel")
         /\ sim' = [sim EXCEPT !.throttle = Throttle(impl, cfg, sim.velocity + v)]
    /\ pc' = "thrust"
    /\ UNCHANGED <<rk, impl, cfg, n_runs, phase, calls, trace, rows, traces,
                   history, summary>>

\* thrust_mult, thrust
DrawThrustNoise ==
    /\ phase = "running" /\ pc = "thrust"
    /\ \E v \in {cfg.thrust_noise * z : z \in NoiseZ} :
         /\ Normal(cfg.thrust_noise, v, "thrust")
         /\ sim' = [sim EXCEPT !.thrust = Thrust(cfg, sim.throttle, v)]
    /\ pc' = "wind"
    /\ UNCHANGED <<rk, impl, cfg, n_runs, phase, calls, trace, rows, traces,
                   history, summary>>

\* An integration whose burn follows the thrust actually applied.
IntegrateBurnsThrust(c, s, wind_acc) ==
    LET accel == QDiv(s.thrust, c.mass) + (-c.gravity) + wind_acc
        vel == s.velocity + accel * c.dt
    IN  [s EXCEPT !.velocity = vel,
                  !.altitude = s.altitude + vel * c.dt,
                  !.fuel = s.fuel - QDiv(s.thrust, c.thrust) * c.dt,
                  !.time = s.time + c.dt]

\* The integration of one step from the wind draw: accel, velocity, altitude,
\* fuel, time.
Integrate(c, s, wind_acc) ==
    LET accel == QDiv(s.thrust, c.mass) + (-c.gravity) + wind_acc
        vel == s.velocity + accel * c.dt
    IN  [s EXCEPT !.velocity = vel,
                  !.altitude = s.altitude + vel * c.dt,
                  !.fuel = s.fuel - s.throttle * c.dt,
                  !.time = s.time + c.dt]

\* wind_acc, the integration, trace.append, the guardrail, and the next
\* evaluation of the while condition.
DrawWindNoise ==
    /\ phase = "running" /\ pc = "wind"
    /\ \E v \in {cfg.wind_std * z : z \in NoiseZ} :
         /\ Normal(cfg.wind_std, v, "wind")
         /\ LET s == Integrate(cfg, sim, v)
                tr == IF HasTrace(impl)
                        THEN Append(trace, TraceRow(impl, s.time, s.altitude, s.fuel,
                                                    s.velocity, s.throttle))
                        ELSE trace
            IN  /\ sim' = s
                /\ trace' = tr
                /\ pc' = IF ~CapHit(impl, cfg, tr) /\ LoopCond(cfg, s)
                           THEN FirstDraw(impl) ELSE "exit"
    /\ UNCHANGED <<rk, impl, cfg, n_runs, phase, calls, rows, traces, history, summary>>

\* landing speed of a run that did not land: None in app.py and web/app.py,
\* NaN in the console, abs(velocity) in 02_monte_carlo.py.
SpeedNotLanded(i, s) ==
    CASE i \in {"app", "web"} -> None
      [] i = "console" -> NaN
      [] OTHER -> Num(Abs(s.velocity))

\* Outcome with the fuel test ahead of the altitude test.
OutcomeFuelFirst(i, c, s) ==
    LET speed == Abs(s.velocity)
        landed == s.fuel > 0 /\ s.altitude <= 0
        reason == IF s.fuel <= 0 THEN "out_of_fuel"
                  ELSE IF s.altitude <= 0
                         THEN (IF speed <= c.safe_speed THEN "safe" ELSE "too_fast")
                         ELSE "time_limit"
    IN  [ landed |-> landed,
          safe |-> (reason = "safe"),
          landing_speed_mps |-> IF landed THEN Num(speed) ELSE SpeedNotLanded(i, s),
          fuel_left_kg |-> Max(s.fuel, 0),
          time_s |-> s.time,
          reason |-> reason ]

\* Outcome with safe decided by the speed alone.
OutcomeSafeBySpeed(i, c, s) ==
    LET landed == s.altitude <= 0
        speed == Abs(s.velocity)
        reason == IF landed
                    THEN (IF speed <= c.safe_speed THEN "safe" ELSE "too_fast")
                    ELSE (IF s.fuel <= 0 THEN "out_of_fuel" ELSE "time_limit")
    IN  [ landed |-> landed,
          safe |-> (speed <= c.safe_speed),
          landing_speed_mps |-> IF landed THEN Num(speed) ELSE SpeedNotLanded(i, s),
          fuel_left_kg |-> Max(s.fuel, 0),
          time_s |-> s.time,
          reason |-> reason ]

\* The classification after the loop and the record returned.
Outcome(i, c, s) ==
    LET landed == s.altitude <= 0
        speed == Abs(s.velocity)
        reason == IF landed
                    THEN (IF speed <= c.safe_speed THEN "safe" ELSE "too_fast")
                    ELSE (IF s.fuel <= 0 THEN "out_of_fuel" ELSE "time_limit")
    IN  [ landed |-> landed,
          safe |-> (reason = "safe"),
          landing_speed_mps |-> IF landed THEN Num(speed) ELSE SpeedNotLanded(i, s),
          fuel_left_kg |-> Max(s.fuel, 0),
          time_s |-> s.time,
          reason |-> reason ]

\* simulate_one returns: the record joins the list run_monte_carlo builds.
Classify ==
    /\ phase = "running" /\ pc = "exit"
    /\ rows' = Append(rows, Outcome(impl, cfg, sim))
    /\ traces' = Append(traces, trace)
    /\ pc' = "none"
    /\ UNCHANGED <<rk, impl, cfg, n_runs, stream, rng, phase, calls, sim, trace,
                   draws, history, summary>>

-----------------------------------------------------------------------------
(* run_monte_carlo *)

NoSim == [altitude |-> 0, velocity |-> 0, fuel |-> 0, time |-> 0,
          throttle |-> 0, thrust |-> 0]

\* rng = np.random.default_rng(int(seed)): a new generator at position 0 of the
\* seed's stream; the list comprehension then starts.
RunMonteCarloSharedRng ==
    /\ phase \in {"idle", "summarized", "failed"}
    /\ calls < MaxCalls
    /\ calls' = calls + 1
    /\ phase' = "running"
    /\ pc' = "none"
    /\ rows' = << >>
    /\ traces' = << >>
    /\ draws' = << >>
    /\ summary' = NoSummary
    /\ UNCHANGED <<rk, impl, cfg, n_runs, stream, rng, sim, trace, history>>

RunMonteCarlo ==
    /\ phase \in {"idle", "summarized", "failed"}
    /\ calls < MaxCalls
    /\ calls' = calls + 1
    /\ rng' = 0
    /\ phase' = "running"
    /\ pc' = "none"
    /\ rows' = << >>
    /\ traces' = << >>
    /\ draws' = << >>
    /\ summary' = NoSummary
    /\ UNCHANGED <<rk, impl, cfg, n_runs, stream, sim, trace, history>>

\* return pd.DataFrame(rows)
Collect ==
    /\ phase = "running" /\ pc = "none" /\ Len(rows) = n_runs
    /\ phase' = "collected"
    /\ history' = Append(history, [rows |-> rows, traces |-> traces])
    /\ UNCHANGED <<rk, impl, cfg, n_runs, stream, rng, calls, pc, sim, trace, rows,
                   traces, draws, summary>>

-----------------------------------------------------------------------------
(* summarize (app.py, web/app.py) and the statistics block of main (console,
   02_monte_carlo.py).  Rates are held in hundredths of a percent, speeds and
   fuel in thousandths of a grid unit: the places round() keeps. *)

\* round(): nearest integer to num / den, ties to even (den > 0, num >= 0)
RoundDiv(num, den) ==
    LET q == num \div den
        r == num % den
    IN  IF 2 * r < den THEN q
        ELSE IF 2 * r > den THEN q + 1
        ELSE IF q % 2 = 0 THEN q ELSE q + 1

RECURSIVE SqrtBetween(_, _, _)
SqrtBetween(x, lo, hi) ==
    IF lo >= hi THEN lo
    ELSE LET mid == (lo + hi + 1) \div 2
         IN  IF mid * mid <= x THEN SqrtBetween(x, mid, hi)
                               ELSE SqrtBetween(x, lo, mid - 1)

\* floor of the square root (46340 is the largest root of a 32-bit value)
ISqrt(x) == SqrtBetween(x, 0, Min(x, 46340))

RECURSIVE SumSeq(_)
SumSeq(s) == IF s = << >> THEN 0 ELSE Head(s) + SumSeq(Tail(s))

IsLanded(r) == r.landed
IsSafe(r) == r.safe

Speeds(rs) == [k \in DOMAIN rs |-> rs[k].landing_speed_mps.val]
Fuels(rs) == [k \in DOMAIN rs |-> rs[k].fuel_left_kg]
Squares(s) == [k \in DOMAIN s |-> s[k] * s[k]]

\* series.mean(), rounded to three places
Mean3(s) == RoundDiv(1000 * SumSeq(s), Len(s))

\* series.std(ddof=1) for two or more values, to three places
Std3(s) ==
    LET k == Len(s)
        num == k * SumSeq(Squares(s)) - SumSeq(s) * SumSeq(s)
    IN  ISqrt((1000000 * num) \div (k * (k - 1)))

\* float(series.mean() * 100), rounded to two places
Rate2(count, n) == RoundDiv(10000 * count, n)

\* the reasons of the rows, each once, in first-seen order
RECURSIVE SeenOrder(_, _)
SeenOrder(rs, acc) ==
    IF rs = << >> THEN acc
    ELSE LET r == Head(rs).reason
         IN  SeenOrder(Tail(rs),
                       IF \E k \in DOMAIN acc : acc[k] = r THEN acc ELSE Append(acc, r))

CountReasonSkipFirst(rs, r) ==
    Cardinality({k \in DOMAIN rs : k > 1 /\ rs[k].reason = r})

CountReason(rs, r) == Cardinality({k \in DOMAIN rs : rs[k].reason = r})

\* first index holding the largest count
FirstMax(pairs) ==
    CHOOSE k \in DOMAIN pairs :
        /\ \A j \in DOMAIN pairs : pairs[j][2] <= pairs[k][2]
        /\ \A j \in 1..(k - 1) : pairs[j][2] < pairs[k][2]

RemoveAt(s, k) == SubSeq(s, 1, k - 1) \o SubSeq(s, k + 1, Len(s))

RECURSIVE SortByCount(_)
SortByCount(pairs) ==
    IF pairs = << >> THEN << >>
    ELSE LET k == FirstMax(pairs)
         IN  << pairs[k] >> \o SortByCount(RemoveAt(pairs, k))

\* df["reason"].value_counts(): <<reason, count>> by descending count, equal
\* counts in first-seen order
ValueCounts(rs) ==
    LET seen == SeenOrder(rs, << >>)
    IN  SortByCount([k \in DOMAIN seen |-> <<seen[k], CountReason(rs, seen[k])>>])

BreakdownPct(bd, n) ==
    [k \in DOMAIN bd |-> <<bd[k][1], RoundDiv(bd[k][2] * 10000, n)>>]

\* max(breakdown.items(), key=lambda kv: kv[1])[0] if breakdown else "none"
Dominant(bd) == IF bd = << >> THEN "none" ELSE bd[FirstMax(bd)][1]

\* A DataFrame built from an empty list has no columns: the first column
\* lookup that is not behind "if n" raises KeyError.
KeyErrorSummary == [NoSummary EXCEPT !.error = "KeyError"]

\* std_speed when no run landed / when exactly one run landed
StdNoneLanded(i) ==
    CASE i = "app" -> Num(0)
      [] i = "web" -> None
      [] i = "console" -> NaN
      [] OTHER -> None

StdOneLanded(i) ==
    CASE i \in {"app", "web"} -> Num(0)
      [] i = "console" -> NaN
      [] OTHER -> None

AvgNoneLanded(i) == IF i = "console" THEN NaN ELSE None

Summarize(i, rs) ==
    LET n == Len(rs)
        landed == SelectSeq(rs, IsLanded)
        bd == ValueCounts(rs)
    IN  IF n = 0 THEN KeyErrorSummary
        ELSE [ error |-> "none",
               runs |-> n,
               safe_rate |-> Rate2(Len(SelectSeq(rs, IsSafe)), n),
               touchdown_rate |-> Rate2(Len(landed), n),
               avg_speed |->
                   IF i = "mc" THEN Num(Mean3(Speeds(rs)))
                   ELSE IF Len(landed) > 0 THEN Num(Mean3(Speeds(landed)))
                   ELSE AvgNoneLanded(i),
               std_speed |->
                   IF i = "mc" THEN None
                   ELSE IF Len(landed) > 1 THEN Num(Std3(Speeds(landed)))
                   ELSE IF Len(landed) = 1 THEN StdOneLanded(i)
                   ELSE StdNoneLanded(i),
               avg_fuel_left |-> IF i = "mc" THEN 0 ELSE Mean3(Fuels(rs)),
               breakdown |-> bd,
               breakdown_pct |-> BreakdownPct(bd, n),
               dominant_reason |->
                   CASE i \in {"app", "web"} -> Dominant(bd)
                     [] i = "console" -> bd[1][1]
                     [] OTHER -> "none" ]

\* summ = summarize(df)
DoSummarize ==
    /\ phase = "collected"
    /\ summary' = Summarize(impl, rows)
    /\ phase' = IF summary'.error = "none" THEN "summarized" ELSE "failed"
    /\ UNCHANGED <<rk, impl, cfg, n_runs, stream, rng, calls, pc, sim, trace, rows,
                   traces, draws, history>>

-----------------------------------------------------------------------------
(* compute_physics (src/app.py)                                              *)
(*                                                                           *)
(* The floats of the estimator and of the suggestion engine are fixed-point  *)
(* numbers in thousandths: 1.0 is U.  Every product and quotient is rounded  *)
(* down to the grid; a round(x, k) of the code rounds half-even to 10^-k.    *)
(* The thrust-to-weight ratio is                                             *)
(* kept exact (a quotient of two integers) until it is rounded for the       *)
(* result, so that the comparisons with 1.0 and 1.5 are those of the code.   *)

U == 1000

FMul(a, b) == (a * b) \div U
FDiv(a, b) == (a * U) \div b
FSqrt(a) == ISqrt(a * U)
Ceil(a) == -((-a) \div U)

\* round(x, k) for x on the grid: step is 10^-k in thousandths
RoundTo(x, step) == RoundDiv(x, step) * step

\* <<floor(n * 10^k / d), remainder>>, one decimal digit at a time
RECURSIVE ScaledDiv(_, _, _)
ScaledDiv(n, d, k) ==
    IF k = 0 THEN << n \div d, n % d >>
    ELSE LET p == ScaledDiv(n, d, k - 1)
         IN  << p[1] * 10 + (p[2] * 10) \div d, (p[2] * 10) % d >>

\* round(n / d, k) in units of 10^-k, half-even
RoundScaled(n, d, k) ==
    LET p == ScaledDiv(n, d, k)
    IN  IF 2 * p[2] < d THEN p[1]
        ELSE IF 2 * p[2] > d THEN p[1] + 1
        ELSE IF p[1] % 2 = 0 THEN p[1] ELSE p[1] + 1

SIGMA_MARGIN == 3
\* 5 * SIM_DT in thousandths of a second (SIM_DT counts steps of 0.05 s)
FiveSimDt == 5 * SIM_DT * 50

ComputePhysics(c) ==
    LET m == c.mass
        g == c.gravity
        h == c.altitude
        F_max == c.thrust
        v_safe == c.safe_speed
        wind_std == c.wind_std
        vel_noise == c.vel_noise
        \* m * g in millionths, exact
        F_hover == m * g
        twr_pos == F_hover > 0 /\ F_max > 0
        \* TWR >= 1.0 and TWR < 1.5 on the unrounded quotient F_max / F_hover
        twr_ge_1 == F_hover > 0 /\ F_max * U >= F_hover
        twr_lt_15 == F_hover <= 0 \/ 2 * F_max * U < 3 * F_hover
        a_brake_max == FDiv(F_max, m) - g
        FF == IF twr_pos THEN Min(F_hover \div F_max, U) ELSE U
        sigma_wind == IF a_brake_max > 0 THEN FDiv(wind_std, a_brake_max)
                      ELSE Max(wind_std * 10, v_safe)
        sigma_total == FSqrt(FMul(sigma_wind, sigma_wind) + FMul(vel_noise, vel_noise))
        v_target == Max(v_safe - SIGMA_MARGIN * sigma_total, 50)
        kp_sat == FDiv(Min(U - FF, FF), SIGMA_MARGIN * Max(sigma_total, 1))
        kp_wind_min == IF F_max > 0 THEN FDiv(FMul(wind_std, m), F_max) ELSE 1
        kp_ideal == IF F_max > 0 /\ h > 0
                      THEN FDiv(10 * FMul(m, v_target), FMul(F_max, h))
                      ELSE 100
        kp == Max(Max(Min(kp_ideal, kp_sat), kp_wind_min), 1)
        t_descent == FDiv(h, v_target)
        tau == IF kp > 0 /\ F_max > 0
                 THEN ScaledDiv(m, kp * F_max, 6)[1]
                 ELSE t_descent
        \* math.ceil: a whole number of seconds
        t_budget == U * Ceil(t_descent + 3 * tau + FiveSimDt)
        correction_overhead == Min(FDiv(sigma_wind, Max(v_target, 1)), 500)
        avg_throttle == IF twr_pos
                          THEN Min(FF + FMul(correction_overhead, U - FF), U)
                          ELSE U
    IN  [ TWR |-> IF F_hover > 0 THEN RoundScaled(F_max * U, F_hover, 3) ELSE 0,
          feasible |-> twr_ge_1,
          marginal |-> twr_ge_1 /\ twr_lt_15,
          impossible |-> ~twr_ge_1,
          v_target |-> v_target,
          kp |-> kp,
          t_budget |-> t_budget,
          fuel_needed |-> RoundTo(FMul(avg_throttle, t_budget), 100) ]

\* Every quantity compute_physics would divide by with no guard in front.
PhysicsDivisorsUnguarded(c) ==
    LET p == ComputePhysics(c)
        a_brake_max == FDiv(c.thrust, c.mass) - c.gravity
    IN  { c.mass, c.mass * c.gravity, c.thrust, a_brake_max, c.thrust * c.altitude,
          2 * c.altitude, p.v_target, p.kp * c.thrust }

\* The quantities an evaluation of compute_physics divides by: a division
\* behind a guard ("if F_max > 0 and h > 0 else 0.1") is reached only when the
\* guard holds.  A zero among them is a ZeroDivisionError.
PhysicsDivisors(c) ==
    LET m == c.mass
        h == c.altitude
        F_max == c.thrust
        F_hover == m * c.gravity
        a_brake_max == FDiv(F_max, m) - c.gravity
        p == ComputePhysics(c)
    IN  { m, p.v_target, Max(p.v_target, 1) }
        \cup (IF F_hover > 0 THEN {F_hover} ELSE {})
        \cup (IF F_hover > 0 /\ F_max > 0 THEN {F_max} ELSE {})
        \cup (IF a_brake_max > 0 THEN {a_brake_max, 2 * a_brake_max} ELSE {})
        \cup (IF F_max > 0 THEN {F_max} ELSE {})
        \cup (IF F_max > 0 /\ h > 0 THEN {F_max * h} ELSE {})
        \cup (IF p.kp > 0 /\ F_max > 0 THEN {p.kp * F_max} ELSE {})
        \cup (IF h > 0 THEN {2 * h} ELSE {})

-----------------------------------------------------------------------------
(* apply_patch and make_suggestions (src/app.py)                             *)
(*                                                                           *)
(* A breakdown is a record of counts by reason; base_rate and every safe     *)
(* rate are in hundredths of a percent, as summarize rounds them.  A         *)
(* suggestion is [kind, patch]; the texts shown to the user are left out.    *)

\* c = copy.deepcopy(cfg); c[key] = val for every key of the patch
ApplyPatch(c, patch) ==
    [ f \in (DOMAIN c) \cup (DOMAIN patch) |->
        IF f \in DOMAIN patch THEN patch[f] ELSE c[f] ]

\* A nudge that grows with the safe rate.
NudgeRising(base_rate) == 80 + (220 * base_rate) \div 10000

\* A patch written into the caller's dictionary itself.
CallerCfgInPlace(c, patch) == ApplyPatch(c, patch)

\* The caller's cfg once apply_patch(cfg, patch) has returned: the writes went
\* to the deep copy.
CallerCfg(c, patch) == c

\* nudge = 0.08 + 0.22 * (1.0 - base_rate / 100.0), in thousandths
Nudge(base_rate) == 80 + (220 * (10000 - base_rate)) \div 10000

\* total = max(sum(breakdown.values()), 1)
BreakdownTotal(b) == Max(b.safe + b.too_fast + b.time_limit + b.out_of_fuel, 1)

\* breakdown.get(reason, 0) / total > num / den
FracAbove(count, total, num, den) == den * count > num * total

Opt(cond, s) == IF cond THEN << s >> ELSE << >>

\* A fix-everything patch that always loads the estimated fuel.
PhysicsPatchNeeded(c, p) ==
    [ target_descent |-> p.v_target,
      kp |-> p.kp,
      max_time |-> p.t_budget,
      fuel |-> p.fuel_needed ]

\* 1. the patch of the fix-everything candidate; p is compute_physics(cfg)
PhysicsPatch(c, p) ==
    [ target_descent |-> p.v_target,
      kp |-> p.kp,
      max_time |-> p.t_budget,
      fuel |-> Max(c.fuel, p.fuel_needed) ]

\* The landing-too-fast gate on the share of too_fast alone.
SlowDescentOnShare(c, b) == FracAbove(b.too_fast, BreakdownTotal(b), 1, 10)

\* 3. if too_fast > 0.1 or cur_descent >= v_safe
SlowDescentDue(c, b) ==
    \/ FracAbove(b.too_fast, BreakdownTotal(b), 1, 10)
    \/ c.target_descent >= c.safe_speed

\* 4. if time_lim > 0.15
MoreTimeDue(b) == FracAbove(b.time_limit, BreakdownTotal(b), 15, 100)

\* 8. if fuel_dry > 0.2
MoreFuelDue(b) == FracAbove(b.out_of_fuel, BreakdownTotal(b), 2, 10)

MakeSuggestions(c, b, base_rate) ==
    LET p == ComputePhysics(c)
        cur_descent == c.target_descent
        cur_kp == c.kp
        cur_time == c.max_time
        cur_fuel == c.fuel
        cur_thrust == c.thrust
        v_safe == c.safe_speed
        kp_opt == p.kp
        total == BreakdownTotal(b)
        nudge == Nudge(base_rate)
        too_fast(num, den) == FracAbove(b.too_fast, total, num, den)
        time_lim(num, den) == FracAbove(b.time_limit, total, num, den)
        fuel_dry(num, den) == FracAbove(b.out_of_fuel, total, num, den)
        \* 3. landing too fast
        slow_d == RoundTo(Max(FMul(cur_descent, U - nudge), 100), 10)
        \* 4. time limit
        new_t == U * Ceil(FMul(cur_time, U + (3 * nudge) \div 2))
        \* 5. descent too slow
        fast_d == RoundTo(Max(FMul(cur_descent, U + nudge \div 2), cur_descent + 100), 10)
        \* 6. not braking hard enough, 7. overcorrecting
        up_kp == Min(FMul(cur_kp, U + nudge), kp_opt * 6)
        down_kp == FMul(cur_kp, U - nudge)
        \* 8. out of fuel
        new_f == RoundTo(FMul(cur_fuel, U + (3 * nudge) \div 2), 100)
        \* 9. thrust
        weak_thr == RoundTo(FMul(cur_thrust, U + 2 * nudge), U)
        more_thr == RoundTo(FMul(cur_thrust, U + nudge), U)
    IN  << [kind |-> "fix_everything", patch |-> PhysicsPatch(c, p)] >>
        \o Opt(5 * cur_kp < kp_opt /\ kp_opt > 0,
               [kind |-> "kp_too_low", patch |-> [kp |-> kp_opt]])
        \o Opt(SlowDescentDue(c, b),
               [kind |-> "too_fast", patch |-> [target_descent |-> slow_d]])
        \o Opt(MoreTimeDue(b),
               [kind |-> "time_limit", patch |-> [max_time |-> new_t]])
        \o Opt(time_lim(3, 10) /\ 10 * cur_descent < 7 * v_safe
                   /\ fast_d > cur_descent + 50,
               [kind |-> "too_slow", patch |-> [target_descent |-> fast_d]])
        \o Opt(too_fast(3, 10) /\ cur_descent < v_safe /\ 5 * cur_kp >= kp_opt,
               [kind |-> "not_braking", patch |-> [kp |-> up_kp]])
        \o Opt((time_lim(3, 10) \/ fuel_dry(3, 10)) /\ cur_kp > kp_opt * 4,
               [kind |-> "overcorrecting", patch |-> [kp |-> down_kp]])
        \o Opt(MoreFuelDue(b),
               [kind |-> "out_of_fuel", patch |-> [fuel |-> new_f]])
        \o (IF ~p.feasible
              THEN << [kind |-> "thrust_weak", patch |-> [thrust |-> weak_thr]] >>
              ELSE Opt(too_fast(4, 10) /\ p.TWR < 1400,
                       [kind |-> "thrust_more", patch |-> [thrust |-> more_thr]]))

-----------------------------------------------------------------------------
(* Candidates of the web service and of the console                          *)
(*                                                                           *)
(* Both read a nested configuration; the model keeps the flat field names of *)
(* src/app.py (fuel for fuel_kg, thrust for max_thrust_newton, ...).  The    *)
(* console builds each candidate as a mutated deep copy of the base; the     *)
(* model keeps the one field the mutation writes, as a patch.                *)

\* cfg[field] * mult, mult in thousandths
Scale(c, field, name, mult) ==
    [ kind |-> name, patch |-> [ f \in {field} |-> FMul(c[f], mult) ] ]

\* web/app.py: estimate_required_time_seconds
EstimateRequiredTime(c) ==
    LET target == Max(c.target_descent, 200)
        base == FDiv(c.altitude, target)
    IN  Max(30 * U, FMul(base, 1350))

GeneralKnobs(c) ==
    << Scale(c, "fuel", "fuel+50%", 1500),
       Scale(c, "thrust", "thrust+25%", 1250),
       Scale(c, "target_descent", "target+25%", 1250),
       Scale(c, "target_descent", "target-25%", 750),
       Scale(c, "kp", "kp+25%", 1250),
       Scale(c, "kp", "kp-25%", 750),
       Scale(c, "wind_std", "wind-30%", 700),
       Scale(c, "vel_noise", "vel_noise-30%", 700) >>

\* web/app.py: candidate_patches
CandidatePatches(c, dominant_reason) ==
    GeneralKnobs(c)
    \o (IF dominant_reason = "time_limit"
          THEN << [kind |-> "max_time=req", patch |-> [max_time |-> EstimateRequiredTime(c)]],
                  Scale(c, "max_time", "max_time*2.0", 2000),
                  Scale(c, "max_time", "max_time*5.0", 5000) >>
          ELSE << >>)
    \o (IF dominant_reason = "out_of_fuel"
          THEN << Scale(c, "fuel", "fuel*2.0", 2000),
                  Scale(c, "thrust", "thrust*1.6", 1600),
                  Scale(c, "target_descent", "target*1.5", 1500) >>
          ELSE << >>)
    \o (IF dominant_reason = "too_fast"
          THEN << Scale(c, "target_descent", "target*0.6", 600),
                  Scale(c, "thrust", "thrust*1.5", 1500),
                  Scale(c, "kp", "kp*1.4", 1400) >>
          ELSE << >>)

\* 07_mission_console.py: base_candidates
BaseCandidates(c) ==
    GeneralKnobs(c) \o << Scale(c, "max_time", "max_time+25%", 1250) >>

\* 07_mission_console.py: expanded_search_if_stuck
ExpandedSearchIfStuck(c, dominant_reason) ==
    CASE dominant_reason = "out_of_fuel" ->
           << Scale(c, "fuel", "fuel*1.5", 1500),
              Scale(c, "fuel", "fuel*2.0", 2000),
              Scale(c, "fuel", "fuel*3.0", 3000),
              Scale(c, "thrust", "thrust*1.2", 1200),
              Scale(c, "thrust", "thrust*1.4", 1400),
              Scale(c, "thrust", "thrust*1.7", 1700),
              Scale(c, "target_descent", "target*1.2", 1200),
              Scale(c, "target_descent", "target*1.5", 1500) >>
      [] dominant_reason = "too_fast" ->
           << Scale(c, "target_descent", "target*0.8", 800),
              Scale(c, "target_descent", "target*0.6", 600),
              Scale(c, "thrust", "thrust*1.2", 1200),
              Scale(c, "thrust", "thrust*1.5", 1500),
              Scale(c, "kp", "kp*1.2", 1200),
              Scale(c, "kp", "kp*1.4", 1400) >>
      [] dominant_reason = "time_limit" ->
           << Scale(c, "max_time", "max_time*1.5", 1500),
              Scale(c, "max_time", "max_time*2.0", 2000),
              Scale(c, "target_descent", "target*1.2", 1200) >>
      [] OTHER -> << >>

\* The candidate list a variant's rank_suggestions scores, in order.
Candidates(i, c, b, dominant_reason, base_rate) ==
    CASE i = "app" -> MakeSuggestions(c, b, base_rate)
      [] i = "web" -> CandidatePatches(c, dominant_reason)
      [] OTHER -> BaseCandidates(c)
                  \o (IF base_rate < 100
                        THEN ExpandedSearchIfStuck(c, dominant_reason)
                        ELSE << >>)

-----------------------------------------------------------------------------
(* rank_suggestions and its callers                                          *)
(*                                                                           *)
(* Scoring a candidate runs run_monte_carlo(cfg2, quick_runs, seed + 777)    *)
(* and summarize.  The batch itself is the state machine above; here its     *)
(* safe rate is a value of RateValues that is fixed by the arguments of the  *)
(* call: rk.quick records the rate each (cfg2, quick_runs, seed) has given,  *)
(* and a later evaluation of the same arguments reads it back.               *)

MaxRankCalls == 2     \* rank_suggestions calls per behaviour, same inputs

RANK_SEED_OFFSET == 777
APP_SKIP_RATE == 9500     \* app.py: summ["safe_rate"] >= 95.0

\* Safe rates a quick batch can report, in hundredths of a percent.
RateValues == {2500, 7500}

NoRank ==
    [ pc |-> "off", cfg |-> << >>, breakdown |-> << >>, dominant_reason |-> "none",
      base_rate |-> 0, seed |-> 0, top_k |-> 0, quick_runs |-> 0, calls |-> 0,
      physics |-> << >>, quick |-> {}, suggs |-> << >>, scored |-> << >>, result |-> << >>,
      returned |-> << >>, nudge |-> 0 ]

\* A sample count that is the bare fraction of n_runs.
QuickRunsUnclamped(i, n) ==
    CASE i = "app" -> (n * 30) \div 100
      [] i = "web" -> n \div 4
      [] OTHER -> n \div 5

\* quick_runs of api_run (app.py, web/app.py) and n_test of main (console)
QuickRuns(i, n) ==
    CASE i = "app" -> Max(80, Min(300, (n * 30) \div 100))
      [] i = "web" -> Max(120, Min(250, IF n >= 400 THEN n \div 4 ELSE 150))
      [] OTHER -> Min(300, Max(120, n \div 5))

\* simulate_one_with_trace of app.py divides by max_thrust before its loop.
Unrunnable(i, c2) == DividesByZero(i, c2)

\* Every sequence as it stands.
KeepOrder(s) == s

\* sorted(..., key=-delta) and sort(key=delta, reverse=True): stable, descending
RECURSIVE InsertByDelta(_, _)
InsertByDelta(s, x) ==
    IF s = << >> THEN << x >>
    ELSE IF Head(s).delta >= x.delta
           THEN << Head(s) >> \o InsertByDelta(Tail(s), x)
           ELSE << x >> \o s

RECURSIVE SortByDelta(_)
SortByDelta(s) ==
    IF s = << >> THEN << >>
    ELSE InsertByDelta(SortByDelta(SubSeq(s, 1, Len(s) - 1)), s[Len(s)])

\* s[:k]
Take(s, k) == SubSeq(s, 1, Min(k, Len(s)))

IsPositive(x) == x.delta > 0
IsZeroNeg(x) == x.delta <= 0

\* app.py: positive[:top_k], then zero_neg fills the free slots
RankedApp(scored, top_k) ==
    LET positive == SortByDelta(SelectSeq(scored, IsPositive))
        zero_neg == SortByDelta(SelectSeq(scored, IsZeroNeg))
        result == Take(positive, top_k)
        filled == IF Len(result) < top_k
                    THEN result \o Take(zero_neg, top_k - Len(result))
                    ELSE result
    IN  Take(filled, top_k)

\* web/app.py and the console: improved[:top_k] if improved else scored[:top_k]
RankedWeb(scored, top_k) ==
    LET sorted == SortByDelta(scored)
        improved == SelectSeq(sorted, IsPositive)
    IN  IF improved # << >> THEN Take(improved, top_k) ELSE Take(sorted, top_k)

Ranked(i, scored, top_k) ==
    IF i = "app" THEN RankedApp(scored, top_k) ELSE RankedWeb(scored, top_k)

\* A derived seed that moves with every call.
RankSeedPerCall == rk.seed + RANK_SEED_OFFSET + rk.calls

\* The seed of the baseline batch, used again.
RankSeedOfBaseline == rk.seed

\* rng = np.random.default_rng(seed + 1): the generator of the display trace
TraceSeed == rk.seed + 1

\* seed + 777, the seed of every quick batch of a ranking pass
RankSeed == rk.seed + RANK_SEED_OFFSET

\* The arguments that fix the result of a quick batch.
QuickKey(c2, runs, sd) == << c2, runs, sd >>

\* Index of the first candidate whose configuration cannot run, 0 if none.
FirstUnrunnable(i, cfgs) ==
    IF \E k \in DOMAIN cfgs : Unrunnable(i, cfgs[k])
      THEN CHOOSE k \in DOMAIN cfgs :
             /\ Unrunnable(i, cfgs[k])
             /\ \A j \in 1..(k - 1) : ~Unrunnable(i, cfgs[j])
      ELSE 0

\* The caller's cfg before each candidate is patched, and after the last.
RECURSIVE CfgAfter(_, _)
CfgAfter(c, suggs) ==
    IF suggs = << >> THEN << c >>
    ELSE << c >> \o CfgAfter(CallerCfg(c, Head(suggs).patch), Tail(suggs))

\* rank_suggestions(cfg, base_rate, breakdown | dominant_reason, seed,
\* quick_runs, top_k): the whole call.  A batch that raises ends the call.
RankSuggestions ==
    /\ rk.pc \in {"ready", "returned", "raised"}
    /\ rk.calls < MaxRankCalls
    /\ \E suggs \in {Candidates(impl, rk.cfg, rk.breakdown, rk.dominant_reason,
                                rk.base_rate)} :
       \E before \in {CfgAfter(rk.cfg, suggs)} :
       \E cfgs \in {[k \in DOMAIN suggs |-> ApplyPatch(before[k], suggs[k].patch)]} :
       \E bad \in {FirstUnrunnable(impl, cfgs)} :
       \E run \in {IF bad = 0 THEN DOMAIN suggs ELSE 1..(bad - 1)} :
       \E keys \in {[k \in run |->
                       QuickKey(cfgs[k], rk.quick_runs, RankSeed)]} :
       \E unseen \in {{keys[k] : k \in run} \ {t.key : t \in rk.quick}} :
       \E fresh \in [unseen -> RateValues] :
       \E table \in {rk.quick \cup {[key |-> q, rate |-> fresh[q]] : q \in unseen}} :
       \E rates \in {[k \in run |-> (CHOOSE t \in table : t.key = keys[k]).rate]} :
       \E scored \in {[k \in run |->
                         [ kind |-> suggs[k].kind,
                           patch |-> suggs[k].patch,
                           est_safe_rate |-> rates[k],
                           delta |-> rates[k] - rk.base_rate ]]} :
       \E result \in {IF bad = 0 THEN Ranked(impl, scored, rk.top_k) ELSE << >>} :
         rk' = [rk EXCEPT !.pc = IF bad = 0 THEN "returned" ELSE "raised",
                          !.cfg = before[(IF bad = 0 THEN Len(suggs) ELSE bad) + 1],
                          !.calls = @ + 1,
                          !.quick = table,
                          !.suggs = suggs,
                          !.nudge = IF impl = "app" THEN Nudge(rk.base_rate) ELSE @,
                          !.scored = scored,
                          !.result = result,
                          !.returned = Append(@, [outcome |-> IF bad = 0 THEN "returned"
                                                              ELSE "raised",
                                                  result |-> result])]
    /\ UNCHANGED <<impl, cfg, n_runs, stream, rng, phase, calls, pc, sim, trace,
                   rows, traces, draws, history, summary>>

\* api_run (app.py, web/app.py) and main (console) around the baseline batch:
\* app.py consults the estimator; each sets the sample count of the ranking
\* pass; app.py returns no suggestions at 95% and above.
ApiRun ==
    /\ rk.pc = "idle"
    /\ rk' = [rk EXCEPT !.physics = IF impl = "app" THEN ComputePhysics(rk.cfg)
                                                   ELSE << >>,
                        !.quick_runs = QuickRuns(impl, n_runs),
                        !.pc = IF impl = "app" /\ rk.base_rate >= APP_SKIP_RATE
                                 THEN "skipped" ELSE "ready"]
    /\ UNCHANGED <<impl, cfg, n_runs, stream, rng, phase, calls, pc, sim, trace,
                   rows, traces, draws, history, summary>>

-----------------------------------------------------------------------------

Init ==
    /\ impl \in Impls
    /\ cfg \in Configs(impl)
    /\ n_runs \in 0..MaxRuns
    /\ stream = << >>
    /\ rng = 0
    /\ phase = "idle"
    /\ calls = 0
    /\ pc = "none"
    /\ sim = NoSim
    /\ trace = << >>
    /\ rows = << >>
    /\ traces = << >>
    /\ draws = << >>
    /\ history = << >>
    /\ summary = NoSummary
    /\ rk = NoRank

Next ==
    \/ RunMonteCarlo
    \/ StartRun
    \/ DrawAltNoise
    \/ DrawVelNoise
    \/ DrawThrustNoise
    \/ DrawWindNoise
    \/ Classify
    \/ Collect
    \/ DoSummarize

Spec == Init /\ [][Next]_vars

-----------------------------------------------------------------------------
(* The simulator on configurations outside its domain.  No function of the   *)
(* repository validates a configuration: simulate_one_with_trace reads the   *)
(* fields and starts.  mass and dt keep valid values here.                   *)

\* mass <= 0, thrust <= 0, dt <= 0, altitude <= 0 or min_throttle > max_throttle
IsInvalid(c) ==
    \/ c.mass <= 0 \/ c.thrust <= 0 \/ c.dt <= 0 \/ c.altitude <= 0
    \/ c.min_throttle > c.max_throttle

InvalidConfigs(i) ==
    LET quiet == { c \in Configs(i) : c.thrust_noise = 0 /\ c.wind_std = 0 }
    IN  { [c EXCEPT !.altitude = a] : c \in quiet, a \in {0, -2} }
        \cup { [c EXCEPT !.min_throttle = 2, !.max_throttle = 1] : c \in quiet }
        \cup { [c EXCEPT !.thrust = 0] : c \in quiet }

InvalidInit ==
    /\ impl \in Impls
    /\ cfg \in InvalidConfigs(impl)
    /\ n_runs \in 0..MaxRuns
    /\ stream = << >>
    /\ rng = 0
    /\ phase = "idle"
    /\ calls = 0
    /\ pc = "none"
    /\ sim = NoSim
    /\ trace = << >>
    /\ rows = << >>
    /\ traces = << >>
    /\ draws = << >>
    /\ history = << >>
    /\ summary = NoSummary
    /\ rk = NoRank

InvalidSpec == InvalidInit /\ [][Next]_vars

-----------------------------------------------------------------------------
(* The simulator with throttle bounds other than [0, 1]: any bounds with     *)
(* 0 <= min_throttle <= max_throttle <= 1 are in the domain (throttle in     *)
(* halves).  The runs start high and fast, with the longest clock.           *)

ThrottleBounds == { <<0, 1>>, <<0, 2>>, <<1, 1>>, <<1, 2>> }

ThrottleConfigs(i) ==
    { [c EXCEPT !.min_throttle = b[1], !.max_throttle = b[2]] :
        c \in { x \in Configs(i) : x.max_time = MaxTime /\ x.fuel = 4
                                     /\ x.initial_velocity = -2 },
        b \in ThrottleBounds }

ThrottleInit ==
    /\ impl \in Impls
    /\ cfg \in ThrottleConfigs(impl)
    /\ n_runs \in 0..MaxRuns
    /\ stream = << >>
    /\ rng = 0
    /\ phase = "idle"
    /\ calls = 0
    /\ pc = "none"
    /\ sim = NoSim
    /\ trace = << >>
    /\ rows = << >>
    /\ traces = << >>
    /\ draws = << >>
    /\ history = << >>
    /\ summary = NoSummary
    /\ rk = NoRank

ThrottleSpec == ThrottleInit /\ [][Next]_vars

-----------------------------------------------------------------------------
(* The suggestion engine on its own: the state after a baseline batch was    *)
(* summarised, then the tail of api_run / main and the ranking calls.        *)

GridRuns == 500
TopKs == {2, 6}
NRunsValues == {1, 60, 81, 150, 151, 440, 1000, 2000}
Seeds == {42}

\* Outcome shares of the baseline batch in twentieths:
\* <<safe, too_fast, time_limit, out_of_fuel>>.  The console's search of a
\* stuck baseline is explored for time_limit; its two other pools hold 15 and
\* 17 candidates.
Shares(i) ==
    { <<20, 0, 0, 0>>, <<0, 0, 20, 0>>,
      <<5, 5, 5, 5>>, <<11, 2, 3, 4>>, <<10, 3, 4, 3>>, <<9, 2, 4, 5>>,
      <<10, 9, 0, 1>>, <<16, 2, 1, 1>> }
    \cup (IF i = "console" THEN {} ELSE { <<0, 20, 0, 0>>, <<0, 0, 0, 20>> })

BreakdownOf(sh, n) ==
    [ safe |-> (sh[1] * n) \div 20, too_fast |-> (sh[2] * n) \div 20,
      time_limit |-> (sh[3] * n) \div 20, out_of_fuel |-> (sh[4] * n) \div 20 ]

HalfTooFast(n) ==
    [ safe |-> n - n \div 2, too_fast |-> n \div 2, time_limit |-> 0,
      out_of_fuel |-> 0 ]

RankInputs(i) ==
    { [n_runs |-> GridRuns, breakdown |-> BreakdownOf(sh, GridRuns), top_k |-> k] :
        sh \in Shares(i), k \in TopKs }
    \cup
    { [n_runs |-> n, breakdown |-> HalfTooFast(n), top_k |-> 6] : n \in NRunsValues }

BreakdownKeys == {"safe", "too_fast", "time_limit", "out_of_fuel"}

\* reasons with the largest count: what value_counts().idxmax() can return
DominantOf(b) ==
    { r \in BreakdownKeys : \A q \in BreakdownKeys : b[r] >= b[q] }

\* Configurations of the engine, in thousandths.
RankConfigs(i) ==
    LET base == [ mass |-> 2000, gravity |-> 1620, altitude |-> 10000,
                  thrust |-> 8000, safe_speed |-> 2000, wind_std |-> 120,
                  vel_noise |-> 80, target_descent |-> 1000, kp |-> 500,
                  max_time |-> 60000, fuel |-> 20000 ]
    IN  IF i = "app"
          THEN { [base EXCEPT !.thrust = t, !.fuel = f, !.kp = k,
                              !.target_descent = d] :
                   t \in {300, 1000, 4000, 8000}, f \in {1000, 500000},
                   k \in {1, 500, 20000}, d \in {1000, 2000} }
               \cup
               { [base EXCEPT !.mass = 25000, !.gravity = 1000, !.thrust = t] :
                   t \in {24990, 25000, 37490, 37500} }
          ELSE { base }

RankInit ==
    /\ impl \in {"app", "web", "console"}
    /\ \E in \in RankInputs(impl), c \in RankConfigs(impl), s \in Seeds :
         /\ n_runs = in.n_runs
         /\ \E d \in DominantOf(in.breakdown) :
              rk = [NoRank EXCEPT !.pc = "idle",
                                  !.cfg = c,
                                  !.breakdown = in.breakdown,
                                  !.dominant_reason = d,
                                  !.base_rate = Rate2(in.breakdown.safe, in.n_runs),
                                  !.seed = s,
                                  !.top_k = in.top_k]
    /\ cfg = CHOOSE c \in Configs(impl) : TRUE
    /\ stream = << >>
    /\ rng = 0
    /\ phase = "idle"
    /\ calls = 0
    /\ pc = "none"
    /\ sim = NoSim
    /\ trace = << >>
    /\ rows = << >>
    /\ traces = << >>
    /\ draws = << >>
    /\ history = << >>
    /\ summary = NoSummary

RankNext ==
    \/ ApiRun
    \/ RankSuggestions

RankSpec == RankInit /\ [][RankNext]_vars

-----------------------------------------------------------------------------
(* compute_physics and make_suggestions called on their own (src/app.py),    *)
(* over a grid of safe rates and over configurations at the edge of the      *)
(* estimator's domain: altitude 0, thrust 0, thrust equal to the weight, and *)
(* target descent speeds down to the estimator's floor of 0.05 m/s.          *)

SweepRuns == 40

\* A batch of SweepRuns runs of which safe landed safely, the rest too fast.
SweepBreakdown(safe) ==
    [ safe |-> safe, too_fast |-> SweepRuns - safe, time_limit |-> 0,
      out_of_fuel |-> 0 ]

EstimatorConfigs ==
    LET base == [ mass |-> 2000, gravity |-> 1620, altitude |-> 10000,
                  thrust |-> 8000, safe_speed |-> 2000, wind_std |-> 120,
                  vel_noise |-> 80, target_descent |-> 1000, kp |-> 500,
                  max_time |-> 60000, fuel |-> 20000 ]
    IN  { [base EXCEPT !.altitude = h, !.thrust = t, !.target_descent = d] :
            h \in {0, 10000}, t \in {0, 3240, 8000},
            d \in {50, 100, 110, 120, 1000, 2000, 3000} }

EstimatorInit ==
    /\ impl = "app"
    /\ \E c \in EstimatorConfigs, safe \in 0..SweepRuns :
         rk = [NoRank EXCEPT !.pc = "idle",
                             !.cfg = c,
                             !.breakdown = SweepBreakdown(safe),
                             !.dominant_reason = "none",
                             !.base_rate = Rate2(safe, SweepRuns)]
    /\ cfg = CHOOSE c \in Configs(impl) : TRUE
    /\ n_runs = SweepRuns
    /\ stream = << >>
    /\ rng = 0
    /\ phase = "idle"
    /\ calls = 0
    /\ pc = "none"
    /\ sim = NoSim
    /\ trace = << >>
    /\ rows = << >>
    /\ traces = << >>
    /\ draws = << >>
    /\ history = << >>
    /\ summary = NoSummary

\* phys = compute_physics(cfg)
Estimate ==
    /\ rk.pc = "idle"
    /\ rk' = IF 0 \in PhysicsDivisors(rk.cfg)
               THEN [rk EXCEPT !.pc = "raised"]
               ELSE [rk EXCEPT !.pc = "estimated",
                               !.physics = ComputePhysics(rk.cfg)]
    /\ UNCHANGED <<impl, cfg, n_runs, stream, rng, phase, calls, pc, sim, trace,
                   rows, traces, draws, history, summary>>

\* suggs = make_suggestions(cfg, breakdown, base_rate)
Suggest ==
    /\ rk.pc = "estimated"
    /\ rk' = [rk EXCEPT !.pc = "suggested",
                        !.nudge = Nudge(rk.base_rate),
                        !.suggs = MakeSuggestions(rk.cfg, rk.breakdown, rk.base_rate)]
    /\ UNCHANGED <<impl, cfg, n_runs, stream, rng, phase, calls, pc, sim, trace,
                   rows, traces, draws, history, summary>>

EstimatorNext ==
    \/ Estimate
    \/ Suggest

EstimatorSpec == EstimatorInit /\ [][EstimatorNext]_vars

-----------------------------------------------------------------------------
(* Properties *)

Reasons == {"safe", "too_fast", "out_of_fuel", "time_limit"}

\* integration steps the current run has taken (time advances by dt per step)
StepsTaken == sim.time \div cfg.dt

InRun == phase = "running" /\ pc # "none"

\* a run has just returned: sim still holds its final locals
RunReturned == phase = "running" /\ pc = "none" /\ rows # << >>

LastRow == rows[Len(rows)]

\* C1: for dt > 0 and max_time > 0 and every sequence of draws the loop of
\* simulate_one_with_trace ends after finitely many steps: the steps taken
\* never exceed int(max_time / dt) + 10, and a run that has not returned can
\* always take its next step.
C1_LoopTerminates ==
    /\ InRun => StepsTaken <= (cfg.max_time \div cfg.dt) + 10
    /\ InRun /\ pc # "exit" => ENABLED (DrawAltNoise \/ DrawVelNoise
                                         \/ DrawThrustNoise \/ DrawWindNoise)
    /\ InRun /\ pc = "exit" => ENABLED Classify

\* a run stopped by the clock alone, one step past int(max_time / dt)
C1_Witness ==
    /\ InRun /\ pc = "exit"
    /\ sim.altitude > 0 /\ sim.fuel > 0 /\ sim.time >= cfg.max_time
    /\ StepsTaken = (cfg.max_time \div cfg.dt) + 1
    /\ StepsTaken >= 2

\* C2: after the loop the reason follows the fixed priority: altitude <= 0
\* gives landed with safe iff |velocity| <= safe_speed, else too_fast; else
\* fuel <= 0 gives out_of_fuel; else time_limit.
C2_ReasonPriority ==
    RunReturned =>
        /\ sim.altitude <= 0 =>
              /\ LastRow.landed
              /\ LastRow.reason =
                    (IF Abs(sim.velocity) <= cfg.safe_speed THEN "safe" ELSE "too_fast")
        /\ sim.altitude > 0 /\ sim.fuel <= 0 =>
              ~LastRow.landed /\ LastRow.reason = "out_of_fuel"
        /\ sim.altitude > 0 /\ sim.fuel > 0 =>
              ~LastRow.landed /\ LastRow.reason = "time_limit"

\* the final step left altitude <= 0 with the fuel gone and the clock run out
C2_Witness ==
    /\ RunReturned
    /\ sim.altitude <= 0 /\ sim.fuel <= 0 /\ sim.time >= cfg.max_time
    /\ LastRow.landed /\ LastRow.reason \in {"safe", "too_fast"}

RECURSIVE SumCounts(_)
SumCounts(bd) == IF bd = << >> THEN 0 ELSE Head(bd)[2] + SumCounts(Tail(bd))

\* C3: every outcome record carries one of the four reasons, and the counts
\* of the breakdown of a summarised batch sum to n_runs, each reason listed
\* once.
C3_ReasonsAndCounts ==
    /\ \A k \in DOMAIN rows : rows[k].reason \in Reasons
    /\ phase = "summarized" =>
          /\ SumCounts(summary.breakdown) = n_runs
          /\ \A k \in DOMAIN summary.breakdown :
                /\ summary.breakdown[k][1] \in Reasons
                /\ summary.breakdown[k][2] >= 1
                /\ \A j \in DOMAIN summary.breakdown :
                      summary.breakdown[j][1] = summary.breakdown[k][1] => j = k

\* a summarised batch whose runs ended for two different reasons
C3_Witness ==
    /\ phase = "summarized" /\ n_runs = 2
    /\ Len(summary.breakdown) = 2
    /\ rows[1].reason # rows[2].reason

\* C4: safe implies landed in every record, so safe_rate <= touchdown_rate in
\* every summary.
C4_SafeImpliesLanded ==
    /\ \A k \in DOMAIN rows : rows[k].safe => rows[k].landed
    /\ phase = "summarized" => summary.safe_rate <= summary.touchdown_rate

\* a batch in which some run landed too fast, one landed safely
C4_Witness ==
    /\ phase = "summarized"
    /\ 0 < summary.safe_rate /\ summary.safe_rate < summary.touchdown_rate

NoneLanded == \A k \in DOMAIN rows : ~rows[k].landed

\* C5: for a batch of n_runs >= 1 in which no run landed the summary reports
\* avg_speed = None and std_speed = 0 (summarize of app.py and web/app.py,
\* statistics block of the console).
C5_NoLandedStats ==
    (phase = "summarized" /\ impl \in {"app", "web", "console"}
       /\ n_runs >= 1 /\ NoneLanded) =>
        /\ summary.avg_speed = None
        /\ summary.std_speed = Num(0)

\* C6: run_monte_carlo followed by summarize with n_runs = 0 completes and
\* returns runs = 0, zero rates, zero avg_fuel_left, empty breakdown and
\* breakdown_pct, dominant_reason "none".
C6_EmptyBatch ==
    (n_runs = 0 /\ phase \in {"summarized", "failed"}) =>
        /\ phase = "summarized"
        /\ summary.error = "none"
        /\ summary.runs = 0
        /\ summary.safe_rate = 0 /\ summary.touchdown_rate = 0
        /\ summary.avg_fuel_left = 0
        /\ summary.breakdown = << >> /\ summary.breakdown_pct = << >>
        /\ summary.dominant_reason = "none"

\* C7: a record holds a landing speed, the |velocity| at touchdown, iff the
\* run landed; out_of_fuel and time_limit runs hold none.
C7_SpeedIffLanded ==
    /\ \A k \in DOMAIN rows :
          (rows[k].landing_speed_mps.tag = "num") <=> rows[k].landed
    /\ RunReturned /\ LastRow.landed =>
          LastRow.landing_speed_mps = Num(Abs(sim.velocity))

\* C8: the fuel reported is never negative: fuel_left_kg of every record and
\* the fuel field of every trace row are >= 0.
C8_ReportedFuelNonNegative ==
    /\ \A k \in DOMAIN rows : rows[k].fuel_left_kg >= 0
    /\ \A k \in DOMAIN trace : TraceFuel(impl, trace[k]) >= 0
    /\ \A r \in DOMAIN traces :
          \A k \in DOMAIN traces[r] : TraceFuel(impl, traces[r][k]) >= 0

\* the last burn took the fuel local below zero; record and trace report 0
C8_Witness ==
    /\ RunReturned /\ HasTrace(impl)
    /\ sim.fuel < 0
    /\ LastRow.fuel_left_kg = 0
    /\ TraceFuel(impl, trace[Len(trace)]) = 0

IsPrefix(s, t) == Len(s) <= Len(t) /\ \A k \in DOMAIN s : s[k] = t[k]

\* C9: calls with the same config, n_runs and seed return identical records
\* and identical traces: every completed call returned what the first did, and
\* a call in progress has so far repeated the first call's runs.
C9_Deterministic ==
    /\ \A a, b \in DOMAIN history : history[a] = history[b]
    /\ (history # << >> /\ phase = "running") =>
          /\ IsPrefix(rows, history[1].rows)
          /\ IsPrefix(traces, history[1].traces)
          /\ (pc # "none" /\ HasTrace(impl)) =>
                IsPrefix(trace, history[1].traces[Len(rows) + 1])

\* two completed calls of two noisy runs each, whose runs differ
C9_Witness ==
    /\ Len(history) = 2 /\ n_runs = 2
    /\ history[1].rows[1] # history[1].rows[2]
    /\ \E k \in DOMAIN stream : stream[k] # 0

UseOrder == <<"vel", "thrust", "wind">>

DrawsOfRun(r) == SelectSeq(draws, LAMBDA d : d[2] = r)

\* C10: one generator serves all runs of a call in order: the draws are taken
\* at consecutive stream positions from the first, run after run, three per
\* integration step in the order velocity noise, thrust multiplier, wind, and
\* no position is taken twice (variants with run_monte_carlo).
C10_ContiguousDraws ==
    impl \in {"app", "web", "console"} =>
        /\ \A k \in DOMAIN draws : draws[k][1] = k
        /\ \A k \in DOMAIN draws : k > 1 => draws[k - 1][2] <= draws[k][2]
        /\ \A r \in 1..n_runs :
              LET ds == DrawsOfRun(r)
              IN  /\ \A j \in DOMAIN ds : ds[j][3] = UseOrder[((j - 1) % 3) + 1]
                  /\ r <= Len(rows) => Len(ds) = 3 * (rows[r].time_s \div cfg.dt)
        /\ rng = Len(draws)

\* a call of two runs, each of at least one step, has returned
C10_Witness ==
    /\ impl \in {"app", "web", "console"}
    /\ phase = "collected" /\ n_runs = 2
    /\ Len(DrawsOfRun(1)) >= 3 /\ Len(DrawsOfRun(2)) >= 3

-----------------------------------------------------------------------------
(* Properties of the suggestion engine *)

Returned == rk.pc = "returned"

\* C11: rank_suggestions returns exactly min(top_k, number of generated
\* candidates) suggestions; slots that positive-delta candidates leave free
\* are filled with non-positive-delta candidates.
C11_ExactCount ==
    Returned => Len(rk.result) = Min(rk.top_k, Len(rk.suggs))

\* Indices of the scored candidates that the returned list leaves out.
LeftOut ==
    { k \in DOMAIN rk.scored : \A j \in DOMAIN rk.result : rk.result[j] # rk.scored[k] }

\* C12: in the returned list every positive delta precedes every non-positive
\* delta, deltas never increase along the list, and no candidate left out has
\* a larger delta than a candidate that is returned.
C12_Ordering ==
    Returned =>
      /\ \A i, j \in DOMAIN rk.result :
           i < j => /\ rk.result[i].delta >= rk.result[j].delta
                    /\ ~(rk.result[i].delta <= 0 /\ rk.result[j].delta > 0)
      /\ \A k \in LeftOut : \A j \in DOMAIN rk.result :
           rk.scored[k].delta <= rk.result[j].delta

C12_Witness ==
    /\ Returned /\ impl = "app"
    /\ LeftOut # {}
    /\ \E i, j \in DOMAIN rk.result :
         rk.result[i].delta > 0 /\ rk.result[j].delta <= 0

\* C13: two calls of rank_suggestions with identical cfg, base_rate, breakdown,
\* seed, quick_runs and top_k return identical ranked lists: the same
\* candidates in the same order with the same est_safe_rate and delta.
C13_Idempotent ==
    \A i, j \in DOMAIN rk.returned : rk.returned[i] = rk.returned[j]

C13_Witness ==
    /\ Len(rk.returned) >= 2
    /\ rk.returned[2].outcome = "returned"
    /\ \E i, j \in DOMAIN rk.result : rk.result[i].delta > rk.result[j].delta

\* C14: a candidate whose patched configuration the simulator cannot run is
\* omitted; rank_suggestions never raises.
C14_NeverRaises ==
    rk.pc # "raised"

\* C15: a configuration with mass <= 0, thrust <= 0, dt <= 0, altitude <= 0
\* or min_throttle > max_throttle is rejected before any integration step and
\* yields no outcome record; with altitude <= 0 no record is landed or safe.
C15_InvalidRejected ==
    IsInvalid(cfg) =>
      /\ pc \notin {"alt", "vel", "thrust", "wind"}
      /\ rows = << >>
      /\ \A k \in DOMAIN history : history[k].rows = << >>

\* The estimator and make_suggestions have run on rk.cfg.
Suggested == impl = "app" /\ rk.calls > 0

\* C16: compute_physics sets exactly one of feasible and impossible (feasible
\* iff TWR >= 1.0), sets marginal iff 1.0 <= TWR < 1.5, and the flags agree
\* with the TWR value reported in the same result.
C16_FlagsAgreeWithTWR ==
    (impl = "app" /\ rk.pc # "idle") =>
      LET p == rk.physics
      IN  /\ p.feasible # p.impossible
          /\ p.feasible <=> p.TWR >= 1000
          /\ p.impossible <=> p.TWR < 1000
          /\ p.marginal <=> (1000 <= p.TWR /\ p.TWR < 1500)

\* Indices of the candidates whose patch writes thrust.
ThrustCandidates == { k \in DOMAIN rk.suggs : "thrust" \in DOMAIN rk.suggs[k].patch }

\* count / total > num / den, total the sum of the breakdown
ShareAbove(count, num, den) ==
    LET b == rk.breakdown
    IN  den * count > num * (b.safe + b.too_fast + b.time_limit + b.out_of_fuel)

HasKind(kind) == \E k \in DOMAIN rk.suggs : rk.suggs[k].kind = kind

\* C17: make_suggestions includes a thrust-increase candidate iff the
\* configuration is infeasible or (too_fast share > 0.4 and TWR < 1.4), never
\* more than one, and its patch raises the thrust strictly.
C17_ThrustCandidate ==
    Suggested =>
      /\ Cardinality(ThrustCandidates) <= 1
      /\ ThrustCandidates # {} <=>
           \/ rk.physics.impossible
           \/ ShareAbove(rk.breakdown.too_fast, 4, 10) /\ rk.physics.TWR < 1400
      /\ \A k \in ThrustCandidates : rk.suggs[k].patch.thrust > rk.cfg.thrust

FixEverything == { k \in DOMAIN rk.suggs : rk.suggs[k].kind = "fix_everything" }

\* C18 as stated: exactly one fix-everything candidate, first in the list, its
\* patch assigning exactly target_descent, kp, max_time and fuel to the
\* estimator's v_target, kp, t_budget and fuel_needed.
C18_FixEverythingAsStated ==
    Suggested =>
      /\ FixEverything = {1}
      /\ rk.suggs[1].patch = [ target_descent |-> rk.physics.v_target,
                               kp |-> rk.physics.kp,
                               max_time |-> rk.physics.t_budget,
                               fuel |-> rk.physics.fuel_needed ]

\* C18 amended: exactly one fix-everything candidate, first in the list, its
\* patch assigning exactly target_descent, kp and max_time to the estimator's
\* v_target, kp and t_budget, and fuel to the larger of the current fuel and
\* the estimator's fuel_needed.
C18_FixEverythingFirst ==
    Suggested =>
      /\ FixEverything = {1}
      /\ rk.suggs[1].patch = [ target_descent |-> rk.physics.v_target,
                               kp |-> rk.physics.kp,
                               max_time |-> rk.physics.t_budget,
                               fuel |-> Max(rk.cfg.fuel, rk.physics.fuel_needed) ]

C18_Witness ==
    /\ Suggested
    /\ rk.cfg.fuel > rk.physics.fuel_needed
    /\ Len(rk.suggs) >= 3

\* C19 as stated: the slow-the-descent candidate is included iff the too_fast
\* share exceeds 10%, the more-time candidate iff the time_limit share exceeds
\* 15%, the more-fuel candidate iff the out_of_fuel share exceeds 20%.
C19_GatesAsStated ==
    Suggested =>
      /\ HasKind("too_fast") <=> ShareAbove(rk.breakdown.too_fast, 10, 100)
      /\ HasKind("time_limit") <=> ShareAbove(rk.breakdown.time_limit, 15, 100)
      /\ HasKind("out_of_fuel") <=> ShareAbove(rk.breakdown.out_of_fuel, 20, 100)

\* C19 amended: the slow-the-descent candidate is included iff the too_fast
\* share exceeds 10% or the current target descent speed is at least the safe
\* speed; the more-time candidate iff the time_limit share exceeds 15%; the
\* more-fuel candidate iff the out_of_fuel share exceeds 20%.
C19_Gates ==
    Suggested =>
      /\ HasKind("too_fast") <=>
           \/ ShareAbove(rk.breakdown.too_fast, 10, 100)
           \/ rk.cfg.target_descent >= rk.cfg.safe_speed
      /\ HasKind("time_limit") <=> ShareAbove(rk.breakdown.time_limit, 15, 100)
      /\ HasKind("out_of_fuel") <=> ShareAbove(rk.breakdown.out_of_fuel, 20, 100)

C19_Witness ==
    /\ Suggested
    /\ rk.cfg.target_descent >= rk.cfg.safe_speed
    /\ ~ShareAbove(rk.breakdown.too_fast, 10, 100)
    /\ HasKind("too_fast") /\ HasKind("time_limit") /\ ~HasKind("out_of_fuel")

\* The clamp range of a caller's quick_runs.
InClamp(i, q) ==
    CASE i = "app" -> 80 <= q /\ q <= 300
      [] i = "web" -> 120 <= q /\ q <= 250
      [] OTHER -> 120 <= q /\ q <= 300

\* quick_runs of a caller for the smallest batches.
SmallBatchRuns(i) ==
    CASE i = "app" -> 80
      [] i = "web" -> 150
      [] OTHER -> 120

\* C20 as stated: for every n_runs >= 1 the quick_runs sample count is smaller
\* than n_runs and inside the clamp range of the caller.
C20_QuickRunsAsStated ==
    rk.pc \notin {"off", "idle"} =>
      /\ rk.quick_runs < n_runs
      /\ InClamp(impl, rk.quick_runs)

\* C20 amended: for every n_runs >= 1 quick_runs lies inside the clamp range
\* of the caller, and it is smaller than n_runs exactly when n_runs exceeds
\* the count used for the smallest batches (80 in app.py, 150 in web/app.py,
\* 120 in the console).
C20_QuickRuns ==
    rk.pc \notin {"off", "idle"} =>
      /\ InClamp(impl, rk.quick_runs)
      /\ rk.quick_runs < n_runs <=> n_runs > SmallBatchRuns(impl)

C20_Witness ==
    /\ rk.pc = "ready"
    /\ n_runs <= SmallBatchRuns(impl)
    /\ rk.quick_runs >= n_runs

-----------------------------------------------------------------------------
(* Properties of the integration loop and of the trace *)

\* between two iterations of the loop, or after it: the locals are those the
\* last trace row was built from
AtLoopTest == InRun /\ pc \in {FirstDraw(impl), "exit"}

LastTraceRow == trace[Len(trace)]

\* C21: the trace starts with the initial state at time 0 and then holds one
\* row per integration step, with fields in the order (time, altitude, fuel,
\* velocity, throttle); times increase by dt from row to row, and the last
\* row's time and fuel equal the record's time_s and fuel_left_kg.
C21_TraceShape ==
    HasTrace(impl) =>
      /\ InRun =>
           /\ trace[1] = << 0, cfg.altitude, cfg.fuel, cfg.initial_velocity, 0 >>
           /\ Len(trace) = StepsTaken + 1
           /\ \A k \in 2..Len(trace) : trace[k][1] = trace[k - 1][1] + cfg.dt
      /\ AtLoopTest =>
           LastTraceRow = << sim.time, sim.altitude, Max(sim.fuel, 0), sim.velocity,
                             sim.throttle >>
      /\ RunReturned =>
           /\ LastTraceRow[1] = LastRow.time_s
           /\ LastTraceRow[3] = LastRow.fuel_left_kg

\* the throttle field of a trace row (the last field in both variants)
TraceThrottle(row) == row[5]

InBounds(thr) == cfg.min_throttle <= thr /\ thr <= cfg.max_throttle

\* the commanded throttle of the step in progress has been computed
Commanded == InRun /\ pc \in {"thrust", "wind"}

\* C22 as stated: in every integration step the commanded throttle lies in
\* [min_throttle, max_throttle] and the applied thrust is >= 0, also under a
\* negative thrust multiplier; every throttle value recorded in the trace
\* lies in those bounds.
C22_ThrottleAsStated ==
    /\ Commanded => InBounds(sim.throttle)
    /\ InRun /\ pc = "wind" => sim.thrust >= 0
    /\ \A k \in DOMAIN trace : InBounds(TraceThrottle(trace[k]))

\* C22 amended: in every integration step the commanded throttle lies in
\* [min_throttle, max_throttle] and the applied thrust is >= 0, also under a
\* negative thrust multiplier; every throttle value that an integration step
\* records in the trace lies in those bounds, and the initial row records 0.
C22_ThrottleInBounds ==
    /\ Commanded => InBounds(sim.throttle)
    /\ InRun /\ pc = "wind" => sim.thrust >= 0
    /\ \A k \in DOMAIN trace :
         IF k = 1 THEN TraceThrottle(trace[k]) = 0
                  ELSE InBounds(TraceThrottle(trace[k]))
    /\ \A r \in DOMAIN traces : \A k \in DOMAIN traces[r] :
         IF k = 1 THEN TraceThrottle(traces[r][k]) = 0
                  ELSE InBounds(TraceThrottle(traces[r][k]))

\* a step past the first whose raw command was below min_throttle > 0 and
\* whose thrust multiplier came out negative
C22_Witness ==
    /\ HasTrace(impl) /\ InRun /\ pc = "wind"
    /\ cfg.min_throttle > 0
    /\ Len(trace) >= 2
    /\ ThrottleUnclamped(impl, cfg, sim.velocity + stream[rng - 1]) < cfg.min_throttle
    /\ sim.throttle = cfg.min_throttle
    /\ 1 + stream[rng] < 0
    /\ sim.thrust = 0

\* a step of the loop is in progress: its draws are being taken
InStep == InRun /\ pc \in {"alt", "vel", "thrust", "wind"}

\* the integration of the step in progress happens in this transition
Integrates == InRun /\ pc = "wind" /\ pc' # "wind"

\* C23: each integration step lowers the fuel by exactly commanded throttle x
\* dt, whatever the thrust multiplier and the actual thrust; with
\* min_throttle >= 0 the fuel never rises during a run, and every step begins
\* with altitude > 0, fuel > 0 and time < max_time.
C23_FuelBurn ==
    /\ [][Integrates => sim'.fuel = sim.fuel - sim.throttle * cfg.dt]_vars
    /\ [][(InRun /\ pc' # "none" /\ cfg.min_throttle >= 0) => sim'.fuel <= sim.fuel]_vars
    /\ [](InStep => sim.altitude > 0 /\ sim.fuel > 0 /\ sim.time < cfg.max_time)

\* a second step has burnt fuel at a positive throttle while the thrust
\* applied was not throttle x max_thrust
C23_Witness ==
    /\ impl = "app" /\ AtLoopTest
    /\ Len(trace) >= 3
    /\ sim.throttle > 0
    /\ sim.thrust # sim.throttle * cfg.thrust
    /\ sim.fuel = trace[Len(trace) - 1][3] - sim.throttle * cfg.dt
    /\ sim.fuel < cfg.fuel

-----------------------------------------------------------------------------
(* Properties of the seeds and of the summary *)

\* the (cfg2, quick_runs, seed) of every quick batch evaluated so far
QuickBatches == { t.key : t \in rk.quick }

\* C25: within one ranking pass every candidate is evaluated with the same
\* derived seed, seed + 777, and the same quick_runs; the derived seed differs
\* from the seed of the baseline batch and from the seed of the display trace.
C25_DerivedSeed ==
    \A q \in QuickBatches :
      /\ q[2] = rk.quick_runs
      /\ q[3] = rk.seed + 777
      /\ q[3] # rk.seed
      /\ q[3] # TraceSeed

\* a pass that evaluated at least three different patched configurations
C25_Witness ==
    /\ Returned
    /\ Len(rk.scored) >= 3
    /\ Cardinality(QuickBatches) >= 3

\* the reasons that no other reason outnumbers
MostFrequent ==
    { r \in Reasons : \A q \in Reasons : CountReason(rows, r) >= CountReason(rows, q) }

\* the first run, in run order, whose reason is among the most frequent
FirstSeenMostFrequent ==
    rows[CHOOSE k \in DOMAIN rows :
           /\ rows[k].reason \in MostFrequent
           /\ \A j \in 1..(k - 1) : rows[j].reason \notin MostFrequent].reason

HasDominant == impl \in {"app", "web", "console"}

\* C26: the dominant_reason of a non-empty batch has a count >= the count of
\* every other reason; among reasons sharing the highest count the one first
\* seen in run order is reported; for an empty batch dominant_reason is "none".
C26_DominantReason ==
    (HasDominant /\ phase \in {"summarized", "failed"}) =>
      IF n_runs = 0
        THEN phase = "summarized" /\ summary.dominant_reason = "none"
        ELSE /\ phase = "summarized"
             /\ summary.dominant_reason \in MostFrequent
             /\ summary.dominant_reason = FirstSeenMostFrequent

LandedRows == SelectSeq(rows, IsLanded)

\* C27: the mean landing speed of a batch is taken over the landed runs only,
\* so the velocity of an out_of_fuel or time_limit run never contributes to
\* it; with exactly one landed run std_speed is 0.
C27_MeanOverLanded ==
    phase = "summarized" =>
      /\ IF Len(LandedRows) > 0
           THEN summary.avg_speed = Num(Mean3(Speeds(LandedRows)))
           ELSE summary.avg_speed.tag # "num"
      /\ Len(LandedRows) = 1 => summary.std_speed = Num(0)

-----------------------------------------------------------------------------
(* Properties of the estimator and of make_suggestions called on their own *)

\* make_suggestions has returned for rk.cfg, rk.breakdown and rk.base_rate
SuggestionsMade == rk.pc = "suggested"

\* the safe rates of the sweep, in hundredths of a percent
SweepRates == { Rate2(safe, SweepRuns) : safe \in 0..SweepRuns }

\* C24: for every baseline safe rate in [0, 100] the nudge factor of
\* make_suggestions lies in [0.08, 0.30], is 0.08 at safe rate 100 and 0.30 at
\* safe rate 0, and is never larger than the nudge of a lower safe rate.
C24_NudgeRange ==
    SuggestionsMade =>
      /\ 80 <= rk.nudge /\ rk.nudge <= 300
      /\ rk.base_rate = 10000 => rk.nudge = 80
      /\ rk.base_rate = 0 => rk.nudge = 300
      /\ \A r \in SweepRates : r <= rk.base_rate => Nudge(r) >= rk.nudge

\* a half-safe baseline: the nudge is strictly inside the range
C24_Witness ==
    /\ SuggestionsMade
    /\ rk.base_rate = 5000
    /\ rk.nudge = 190

\* compute_physics has returned for rk.cfg
Estimated == rk.pc \in {"estimated", "suggested"}

\* the numbers of an estimator result
PhysicsNumbers(p) == { p.TWR, p.v_target, p.kp, p.t_budget, p.fuel_needed }

\* C28: compute_physics completes without a division error and returns only
\* finite values for a configuration whose initial altitude is 0 or whose
\* maximum thrust is 0, using its fallback branches; its recommended kp is
\* always >= 0.001 and its v_target always >= 0.05.
C28_EstimatorGuards ==
    /\ rk.pc # "raised"
    /\ Estimated =>
         /\ PhysicsNumbers(rk.physics) \subseteq Int
         /\ rk.physics.kp >= 1
         /\ rk.physics.v_target >= 50
         /\ rk.physics.t_budget >= 0 /\ rk.physics.fuel_needed >= 0
         /\ rk.cfg.thrust = 0 =>
              /\ rk.physics.TWR = 0 /\ rk.physics.impossible
              /\ rk.physics.kp = 1 /\ rk.physics.v_target = 50
         /\ (rk.cfg.altitude = 0 /\ rk.cfg.thrust > 0) =>
              rk.physics.kp <= Max(100, FDiv(FMul(rk.cfg.wind_std, rk.cfg.mass),
                                             rk.cfg.thrust))

\* the estimator has returned for altitude 0 and thrust 0 at once
C28_Witness ==
    /\ Estimated
    /\ rk.cfg.altitude = 0 /\ rk.cfg.thrust = 0
    /\ rk.physics.kp = 1 /\ rk.physics.v_target = 50

Slowed == { k \in DOMAIN rk.suggs : rk.suggs[k].kind = "too_fast" }

\* C30: for every current target descent speed > 0 and every baseline safe
\* rate in [0, 100], the slow-the-descent candidate of make_suggestions
\* patches target_descent to a value that is positive and strictly lower than
\* the current target descent speed.
C30_SlowsDescent ==
    (SuggestionsMade /\ rk.cfg.target_descent > 0) =>
      \A k \in Slowed :
        /\ rk.suggs[k].patch.target_descent > 0
        /\ rk.suggs[k].patch.target_descent < rk.cfg.target_descent

-----------------------------------------------------------------------------
(* Properties of apply_patch inside a ranking pass *)

\* the configurations the quick batches of the passes so far were run on
EvaluatedConfigs == { t.key[1] : t \in rk.quick }

\* the caller's cfg under the patch of each scored candidate, and of no other
OwnPatchConfigs == { ApplyPatch(rk.cfg, rk.scored[k].patch) : k \in DOMAIN rk.scored }

\* C29: apply_patch returns a patched deep copy and leaves its input alone:
\* no step changes the caller's cfg, so after rank_suggestions returns it is
\* what it was before the call, and every candidate is evaluated on the
\* caller's cfg under its own patch only.
C29_PatchIsolated ==
    /\ [][rk'.cfg = rk.cfg]_vars
    /\ [](rk.calls > 0 => EvaluatedConfigs = OwnPatchConfigs)

\* a pass has returned whose candidates patched different fields
C29_Witness ==
    /\ Returned
    /\ \E i, j \in DOMAIN rk.scored :
         /\ i < j
         /\ DOMAIN rk.scored[i].patch # DOMAIN rk.scored[j].patch
         /\ ApplyPatch(rk.cfg, rk.scored[i].patch) # rk.cfg
         /\ ApplyPatch(rk.cfg, rk.scored[j].patch) # rk.cfg
    /\ Cardinality(EvaluatedConfigs) >= 3

====
